---- MODULE Spec2Model ----
(***************************************************************************)
(* Model of the billing-cycle manager (lib/billing-cycle), of the SSE      *)
(* heartbeat manager (lib/sse-heartbeat) and of the two completion         *)
(* handlers that tie a stream's outcome back into the billing cycle.       *)
(***************************************************************************)
EXTENDS Integers, FiniteSets, Sequences, TLC

\* ------------------------------------------------------------------ bounds

\* Number of requests (callers of determineInitiator) in one behaviour.
NumReq == 3
\* Number of times the wall clock advances in one behaviour.
MaxTicks == 3
\* Number of reset() calls in one behaviour.
MaxResets == 1

\* Number of backend frames one stream delivers at most.
MaxFrames == 2
\* Number of heartbeat ticks one session fires at most.
MaxBeats == 2
\* Number of backend chunks one translated stream delivers at most.
MaxChunks == 3
\* Number of distinct tool-call indexes the backend uses in one stream.
MaxToolCalls == 2

Requests == 1..NumReq

\* ------------------------------------------------------- program constants

CYCLE_TIMEOUT_MS == 5 * 60 * 1000

\* DEFAULT_HEARTBEAT_CONFIG.maxConnectionDuration when the environment gives none
DEFAULT_MAX_CONNECTION_DURATION == 600000

\* The amounts by which the wall clock advances between two steps.
Deltas == {1, CYCLE_TIMEOUT_MS}

VARIABLES
    \* BillingCycleManager fields
    inCycle, lastResponseTime, pendingResponses,
    \* this.lock: the promise the next caller will await. 0 is the initial
    \* Promise.resolve(); r is the promise created by request r's acquireLock.
    lock,
    \* this.releaseLock: the promise its call resolves (0: the initial no-op)
    releaseLock,
    \* the promises that have been resolved
    resolved,
    \* Date.now(), and the number of times it advanced
    now, ticks,
    \* per request: position, the local currentLock of acquireLock, the verdict
    pc, currentLock, verdict,
    \* number of reset() calls so far
    resets,
    \* history: what happened since the last mark/reset, in the current cycle,
    \* and what the most recent determineInitiator saw
    hist, lastCall,
    \* process configuration read at start, one record per handler invocation,
    \* one SSEHeartbeatManager per invocation
    config, handler, heartbeat

billingVars == <<inCycle, lastResponseTime, pendingResponses>>
lockVars == <<lock, releaseLock, resolved>>
vars == <<inCycle, lastResponseTime, pendingResponses, lock, releaseLock,
          resolved, now, ticks, pc, currentLock, verdict, resets, hist, lastCall,
          config, handler, heartbeat>>
hvars == <<config, handler, heartbeat>>

Max(a, b) == IF a >= b THEN a ELSE b

InFlight == {r \in Requests : pc[r] = "inflight"}

\* ------------------------------------------------------------ pure helpers

\* determineInitiator, lines 36-40: the lazy expiry test.
CycleExpiredIgnoringPending(t) ==
    inCycle /\ t - lastResponseTime > CYCLE_TIMEOUT_MS
CycleExpiredReversed(t) ==
    inCycle /\ pendingResponses = 0 /\ lastResponseTime - t > CYCLE_TIMEOUT_MS
CycleExpired(t) ==
    inCycle /\ pendingResponses = 0 /\ t - lastResponseTime > CYCLE_TIMEOUT_MS

\* markResponseComplete, line 66, and markRequestFailed, line 74: the decrement
\* with its floor at 0.
PendingAfterCompleteToZero(p) == 0
PendingAfterComplete(p) == Max(0, p - 1)
PendingAfterFailureKept(p) == p
PendingAfterFailure(p) == Max(0, p - 1)

\* markRequestFailed, line 77: p is pendingResponses after the decrement.
FirstRequestFailedAnyTime(p) == p = 0
FirstRequestFailed(p) == p = 0 /\ lastResponseTime = 0

\* acquireLock, line 113: `await currentLock` lets the caller continue once
\* the promise it captured has been resolved.
LockReleasedNoWait(r) == TRUE
LockReleased(r) == currentLock[r] \in resolved

\* determineInitiator, lines 55-57: `finally { this.releaseLock() }` resolves
\* the promise installed by the holder, the one the next caller awaits.
ReleasedNever == resolved
Released == resolved \cup {releaseLock}

\* Requests whose determineInitiator returned, and those that then called
\* markResponseComplete or markRequestFailed.
Returned == {r \in Requests : pc[r] \in {"inflight", "done"}}
Marked == {r \in Requests : pc[r] = "done"}

\* ------------------------------------------------------------------- Init

NoCall == [r |-> 0, verdict |-> "none", pendingBefore |-> 0, age |-> -1,
           quiet |-> FALSE, completedInCycle |-> FALSE,
           firstFailed |-> FALSE, firstFailedAlone |-> FALSE,
           laterFailed |-> FALSE, stale |-> FALSE]

InitHist == [callsSinceMark |-> 0, usersSinceMark |-> 0, agentsSinceMark |-> 0,
             idleAtMark |-> TRUE,
             completedInCycle |-> FALSE, lastCompleteAt |-> 0, quiet |-> FALSE,
             opener |-> 0, firstFailed |-> FALSE, firstFailedAlone |-> FALSE,
             laterFailed |-> FALSE, stale |-> {}, failedToZero |-> FALSE]

\* `Number(process.env.X) || dflt`: an unset variable gives NaN and "0" gives 0,
\* both falsy, so both yield the default.
Number(env) ==
    CASE env = "unset" -> [nan |-> TRUE, n |-> 0]
      [] env = "0" -> [nan |-> FALSE, n |-> 0]
      [] env = "300000" -> [nan |-> FALSE, n |-> 300000]
NumberOrDefault(env, dflt) ==
    IF Number(env).nan \/ Number(env).n = 0 THEN dflt ELSE Number(env).n

\* DEFAULT_HEARTBEAT_CONFIG from the environment (the interval only sets the pace
\* of the timer and is not kept), and state.manualApprove.
MakeConfig(envEnabled, envMaxDuration, manualApprove) ==
    [enabled |-> envEnabled # "false",
     maxConnectionDuration |->
         NumberOrDefault(envMaxDuration, DEFAULT_MAX_CONNECTION_DURATION),
     envMaxDuration |-> envMaxDuration,
     manualApprove |-> manualApprove]

EnvEnabled == {"unset", "false"}
EnvMaxDurations == {"unset", "0", "300000"}

\* const streamState: AnthropicStreamState = {...}; toolCalls maps a backend
\* tool-call index to the index of its content block.
NewStreamStateFromOne ==
    [messageStartSent |-> FALSE, contentBlockIndex |-> 1,
     contentBlockOpen |-> FALSE, toolCalls |-> <<>>]
NewStreamState ==
    [messageStartSent |-> FALSE, contentBlockIndex |-> 0,
     contentBlockOpen |-> FALSE, toolCalls |-> <<>>]

NewHandler == [pc |-> "new", kind |-> "none", shape |-> "none", frames |-> 0,
               errored |-> FALSE, aborted |-> FALSE,
               completeCalls |-> 0, failedCalls |-> 0,
               \* history: the step that threw before dispatch
               rejectedAt |-> "none",
               \* Anthropic route: translation state, the events of the
               \* current chunk still to write, the events written
               streamState |-> NewStreamState, toWrite |-> <<>>, out |-> <<>>,
               \* history: the backend delivered its terminal chunk; the
               \* loop read [DONE], and what was written by then
               finished |-> FALSE, sentinel |-> FALSE, lenAtSentinel |-> 0]

\* new SSEHeartbeatManager(requestId): fields as constructed
NewHeartbeat == [timer |-> FALSE, heartbeatCount |-> 0, startTime |-> 0,
                 started |-> FALSE, writing |-> 0, maxDurationCalls |-> 0,
                 \* history: heartbeatCount when a tick's write last failed
                 failedAt |-> 0,
                 \* history: after the handler's stop() returned, a tick
                 \* fired / onMaxDuration was invoked
                 firedAfterStop |-> FALSE, calledAfterStop |-> FALSE,
                 \* history: the latest tick fired past the cap; such a
                 \* tick's write failed
                 firedPastCap |-> FALSE, failedPastCap |-> FALSE]

InitCore ==
    /\ inCycle = FALSE
    /\ lastResponseTime = 0
    /\ pendingResponses = 0
    /\ lock = 0
    /\ releaseLock = 0
    /\ resolved = {0}
    \* the wall clock reads far more than the timeout since the epoch
    /\ now = CYCLE_TIMEOUT_MS + 1
    /\ ticks = 0
    /\ pc = [r \in Requests |-> "idle"]
    /\ currentLock = [r \in Requests |-> 0]
    /\ verdict = [r \in Requests |-> "none"]
    /\ resets = 0
    /\ hist = InitHist
    /\ lastCall = NoCall
    /\ handler = [r \in Requests |-> NewHandler]
    /\ heartbeat = [r \in Requests |-> NewHeartbeat]

\* The billing-cycle manager on its own, driven by its callers.
Init ==
    /\ InitCore
    /\ config = MakeConfig("unset", "unset", FALSE)

\* The handlers, under every configuration read at process start.
HandlerInit ==
    /\ InitCore
    /\ \E e \in EnvEnabled, m \in EnvMaxDurations, a \in BOOLEAN :
          config = MakeConfig(e, m, a)

\* ---------------------------------------------------------------- actions

\* determineInitiator() is called: acquireLock runs up to `await currentLock`.
\* Requests are numbered in the order in which they call.
Call(r) ==
    /\ pc[r] = "idle"
    /\ \A q \in Requests : q < r => pc[q] # "idle"
    /\ currentLock' = [currentLock EXCEPT ![r] = lock]
    /\ lock' = r
    /\ pc' = [pc EXCEPT ![r] = "awaitLock"]
    /\ UNCHANGED <<billingVars, releaseLock, resolved, now, ticks, verdict,
                   resets, hist, lastCall>>

\* acquireLock resumes after the await, installs its release and returns.
Acquire(r) ==
    /\ pc[r] = "awaitLock"
    /\ LockReleased(r)
    /\ releaseLock' = r
    /\ pc' = [pc EXCEPT ![r] = "locked"]
    /\ UNCHANGED <<billingVars, lock, resolved, now, ticks, currentLock, verdict,
                   resets, hist, lastCall>>

\* The try/finally of determineInitiator: one synchronous block.
Critical(r) ==
    /\ pc[r] = "locked"
    /\ LET expired == CycleExpired(now)
           open == inCycle /\ ~expired
           v == IF open THEN "agent" ELSE "user"
           age == IF hist.lastCompleteAt = 0 THEN -1 ELSE now - hist.lastCompleteAt
       IN /\ inCycle' = TRUE
          /\ pendingResponses' = pendingResponses + 1
          /\ verdict' = [verdict EXCEPT ![r] = v]
          /\ lastCall' = [r |-> r, verdict |-> v,
                          pendingBefore |-> pendingResponses, age |-> age,
                          quiet |-> hist.quiet,
                          completedInCycle |-> hist.completedInCycle,
                          firstFailed |-> hist.firstFailed,
                          firstFailedAlone |-> hist.firstFailedAlone,
                          laterFailed |-> hist.laterFailed,
                          stale |-> hist.stale # {}]
          /\ hist' = [hist EXCEPT
                        !.callsSinceMark = @ + 1,
                        !.usersSinceMark = IF v = "user" THEN @ + 1 ELSE @,
                        !.agentsSinceMark = IF v = "agent" THEN @ + 1 ELSE @,
                        !.completedInCycle = IF v = "user" THEN FALSE ELSE @,
                        !.opener = IF v = "user" THEN r ELSE @,
                        !.quiet = FALSE,
                        !.failedToZero = FALSE,
                        !.firstFailed = FALSE,
                        !.firstFailedAlone = FALSE,
                        !.laterFailed = FALSE]
    \* finally: this.releaseLock()
    /\ resolved' = Released
    /\ pc' = [pc EXCEPT ![r] = "inflight"]
    /\ UNCHANGED <<lastResponseTime, lock, releaseLock, now, ticks, currentLock,
                   resets>>

MarkResponseComplete(r) ==
    /\ pc[r] = "inflight"
    /\ lastResponseTime' = now
    /\ pendingResponses' = PendingAfterComplete(pendingResponses)
    /\ pc' = [pc EXCEPT ![r] = "done"]
    /\ hist' = [hist EXCEPT
                  !.callsSinceMark = 0, !.usersSinceMark = 0, !.agentsSinceMark = 0,
                  !.idleAtMark = (~inCycle /\ pendingResponses' = 0),
                  !.completedInCycle = @ \/ (inCycle /\ hist.opener # 0),
                  !.lastCompleteAt = now,
                  !.failedToZero = FALSE,
                  !.quiet = TRUE]
    /\ UNCHANGED <<inCycle, lockVars, now, ticks, currentLock, verdict, resets,
                   lastCall>>

MarkRequestFailed(r) ==
    /\ pc[r] = "inflight"
    /\ pendingResponses' = PendingAfterFailure(pendingResponses)
    /\ inCycle' = IF FirstRequestFailed(pendingResponses') THEN FALSE ELSE inCycle
    /\ pc' = [pc EXCEPT ![r] = "done"]
    /\ LET first == hist.opener = r /\ ~hist.completedInCycle
           later == /\ hist.opener # 0 /\ hist.opener # r
                    /\ r \notin hist.stale /\ hist.completedInCycle
       IN hist' = [hist EXCEPT
                  !.callsSinceMark = 0, !.usersSinceMark = 0, !.agentsSinceMark = 0,
                  !.idleAtMark = (~inCycle' /\ pendingResponses' = 0),
                  !.failedToZero = /\ pendingResponses' = 0
                                   /\ hist.opener # 0
                                   /\ ~hist.completedInCycle,
                  !.firstFailed = @ \/ first,
                  !.firstFailedAlone = @ \/ (first /\ InFlight = {r}),
                  !.laterFailed = @ \/ later]
    /\ UNCHANGED <<lastResponseTime, lockVars, now, ticks, currentLock, verdict,
                   resets, lastCall>>

Reset ==
    /\ resets < MaxResets
    /\ resets' = resets + 1
    /\ inCycle' = FALSE
    /\ lastResponseTime' = 0
    /\ pendingResponses' = 0
    /\ hist' = [hist EXCEPT
                  !.callsSinceMark = 0, !.usersSinceMark = 0, !.agentsSinceMark = 0,
                  !.idleAtMark = TRUE,
                  !.completedInCycle = FALSE,
                  !.failedToZero = FALSE,
                  !.opener = 0,
                  !.firstFailed = FALSE, !.firstFailedAlone = FALSE,
                  !.laterFailed = FALSE,
                  !.stale = @ \cup InFlight]
    /\ UNCHANGED <<lockVars, now, ticks, pc, currentLock, verdict, lastCall>>

\* Time passes.
Tick(d) ==
    /\ ticks < MaxTicks
    /\ ticks' = ticks + 1
    /\ now' = now + d
    /\ UNCHANGED <<billingVars, lockVars, pc, currentLock, verdict, resets, hist,
                   lastCall>>

Next ==
    \/ \E r \in Requests : Call(r) /\ UNCHANGED hvars
    \/ \E r \in Requests : Acquire(r) /\ UNCHANGED hvars
    \/ \E r \in Requests : Critical(r) /\ UNCHANGED hvars
    \/ \E r \in Requests : MarkResponseComplete(r) /\ UNCHANGED hvars
    \/ \E r \in Requests : MarkRequestFailed(r) /\ UNCHANGED hvars
    \/ Reset /\ UNCHANGED hvars
    \/ \E d \in Deltas : Tick(d) /\ UNCHANGED hvars

Spec == Init /\ [][Next]_vars

\* The event loop runs every continuation that is ready: a caller whose awaited
\* promise is resolved resumes, and a caller holding the lock runs its
\* synchronous block to the end.
Fairness ==
    \A r \in Requests :
        /\ WF_vars(Acquire(r) /\ UNCHANGED hvars)
        /\ WF_vars(Critical(r) /\ UNCHANGED hvars)

\* The callers of the manager at one instant: the lock does not read the clock,
\* so the clock stands still while the callers interleave.
LockNext ==
    \/ \E r \in Requests : Call(r) /\ UNCHANGED hvars
    \/ \E r \in Requests : Acquire(r) /\ UNCHANGED hvars
    \/ \E r \in Requests : Critical(r) /\ UNCHANGED hvars
    \/ \E r \in Requests : MarkResponseComplete(r) /\ UNCHANGED hvars
    \/ \E r \in Requests : MarkRequestFailed(r) /\ UNCHANGED hvars
    \/ Reset /\ UNCHANGED hvars

LockSpec == Init /\ [][LockNext]_vars /\ Fairness

\* ----------------------------------------------------- completion handlers

\* HandlerSpec follows one invocation of a handler from the route to its end:
\* a stream's heartbeat session and loop state are owned by that invocation.
Streams == {1}

Kinds == {"native", "anthropic"}

SetH(r, f, v) == handler' = [handler EXCEPT ![r][f] = v]

\* SSEHeartbeatManager.start: a disabled session arms nothing.
HeartbeatStart(b) ==
    IF ~config.enabled THEN b
    ELSE [b EXCEPT !.startTime = now, !.heartbeatCount = 0, !.timer = TRUE,
                   !.started = TRUE]

\* SSEHeartbeatManager.stop: clears the timer if one is armed.
HeartbeatStopForgotten(b) == b
HeartbeatStop(b) == IF b.timer THEN [b EXCEPT !.timer = FALSE] ELSE b

\* The max-duration test of a tick, lines 114-117.
MaxDurationExceeded(b) ==
    /\ config.maxConnectionDuration > 0
    /\ now - b.startTime > config.maxConnectionDuration

\* checkRateLimit(state): passes or throws; the handler's kind is the route.
RateLimit(r, k, ok) ==
    /\ handler[r].pc = "new"
    /\ \A q \in Streams : q < r => handler[q].pc # "new"
    /\ handler' = [handler EXCEPT
                      ![r].kind = k,
                      ![r].pc = IF ok THEN "parse" ELSE "rejected",
                      ![r].rejectedAt = IF ok THEN @ ELSE "rateLimit"]
    /\ UNCHANGED <<billingVars, lockVars, now, ticks, pc, currentLock, verdict,
                   resets, hist, lastCall, config, heartbeat>>

\* c.req.json() (and translateToOpenAI for the Anthropic route): ok or throws.
ParseBody(r, ok) ==
    /\ handler[r].pc = "parse"
    /\ handler' = [handler EXCEPT
                      ![r].pc = IF ok THEN "approval" ELSE "rejected",
                      ![r].rejectedAt = IF ok THEN @ ELSE "body"]
    /\ UNCHANGED <<billingVars, lockVars, now, ticks, pc, currentLock, verdict,
                   resets, hist, lastCall, config, heartbeat>>

\* if (state.manualApprove) await awaitApproval(): granted or throws.
ApprovalAfterInitiator(r, ok) ==
    /\ handler[r].pc = "approval"
    /\ ok \/ config.manualApprove
    /\ handler' = [handler EXCEPT
                      ![r].pc = IF ok THEN "dispatch" ELSE "rejected",
                      ![r].rejectedAt = IF ok THEN @ ELSE "approval"]
    /\ IF ok
       THEN UNCHANGED <<billingVars, lockVars, now, ticks, pc, currentLock,
                        verdict, resets, hist, lastCall, config, heartbeat>>
       ELSE /\ inCycle' = TRUE
            /\ pendingResponses' = pendingResponses + 1
            /\ UNCHANGED <<lastResponseTime, lockVars, now, ticks, pc,
                           currentLock, verdict, resets, hist, lastCall,
                           config, heartbeat>>
Approval(r, ok) ==
    /\ handler[r].pc = "approval"
    /\ ok \/ config.manualApprove
    /\ handler' = [handler EXCEPT
                      ![r].pc = IF ok THEN "dispatch" ELSE "rejected",
                      ![r].rejectedAt = IF ok THEN @ ELSE "approval"]
    /\ UNCHANGED <<billingVars, lockVars, now, ticks, pc, currentLock, verdict,
                   resets, hist, lastCall, config, heartbeat>>

\* createChatCompletions(payload) starts: it asks the billing-cycle manager for
\* the verdict it attaches to the backend call.
Dispatch(r) ==
    /\ handler[r].pc = "dispatch"
    /\ Call(r)
    /\ SetH(r, "pc", "backend")
    /\ UNCHANGED <<config, heartbeat>>

\* The backend call throws: the failure is recorded in the billing cycle.
BackendFails(r) ==
    /\ handler[r].pc = "backend"
    /\ MarkRequestFailed(r)
    /\ handler' = [handler EXCEPT ![r].pc = "upstreamFailed",
                                  ![r].failedCalls = @ + 1]
    /\ UNCHANGED <<config, heartbeat>>

\* createChatCompletions returns a complete response or a frame sequence.
BackendReplies(r, shape) ==
    /\ handler[r].pc = "backend"
    /\ pc[r] = "inflight"
    /\ handler' = [handler EXCEPT ![r].shape = shape,
                                  ![r].pc = IF shape = "complete" THEN "nonStreaming"
                                            ELSE "streamOpen"]
    /\ UNCHANGED <<billingVars, lockVars, now, ticks, pc, currentLock, verdict,
                   resets, hist, lastCall, config, heartbeat>>

\* isNonStreaming(response): return c.json(...).
ReplyJson(r) ==
    /\ handler[r].pc = "nonStreaming"
    /\ SetH(r, "pc", "replied")
    /\ UNCHANGED <<billingVars, lockVars, now, ticks, pc, currentLock, verdict,
                   resets, hist, lastCall, config, heartbeat>>

\* streamSSE callback up to the first pull: the heartbeat session is armed.
StreamOpen(r) ==
    /\ handler[r].pc = "streamOpen"
    /\ heartbeat' = [heartbeat EXCEPT ![r] = HeartbeatStart(@)]
    /\ SetH(r, "pc", "pulling")
    /\ UNCHANGED <<billingVars, lockVars, now, ticks, pc, currentLock, verdict,
                   resets, hist, lastCall, config>>

\* The loop ended without error: markResponseComplete, stats, finally stop().
StreamSuccess(r) ==
    /\ MarkResponseComplete(r)
    /\ handler' = [handler EXCEPT ![r].pc = "returned",
                                  ![r].completeCalls = @ + 1]
    /\ heartbeat' = [heartbeat EXCEPT ![r] = HeartbeatStop(@)]
    /\ UNCHANGED config

\* catch: markRequestFailed, log, rethrow; finally stop().
StreamCatchWithoutMark(r) ==
    /\ handler' = [handler EXCEPT ![r].pc = "rethrown", ![r].errored = TRUE]
    /\ heartbeat' = [heartbeat EXCEPT ![r] = HeartbeatStop(@)]
    /\ UNCHANGED <<billingVars, lockVars, now, ticks, pc, currentLock, verdict,
                   resets, hist, lastCall, config>>
StreamCatch(r) ==
    /\ MarkRequestFailed(r)
    /\ handler' = [handler EXCEPT ![r].pc = "rethrown", ![r].errored = TRUE,
                                  ![r].failedCalls = @ + 1]
    /\ heartbeat' = [heartbeat EXCEPT ![r] = HeartbeatStop(@)]
    /\ UNCHANGED config

\* for await: the next frame arrives and is to be written (the Anthropic route
\* has parsed and translated it).
PullData(r) ==
    /\ handler[r].pc = "pulling"
    /\ handler[r].frames < MaxFrames
    /\ handler' = [handler EXCEPT ![r].pc = "writing", ![r].frames = @ + 1]
    /\ UNCHANGED <<billingVars, lockVars, now, ticks, pc, currentLock, verdict,
                   resets, hist, lastCall, config, heartbeat>>

\* Anthropic route: a frame without data is skipped (continue).
PullEmpty(r) ==
    /\ handler[r].pc = "pulling"
    /\ handler[r].kind = "anthropic"
    /\ handler[r].frames < MaxFrames
    /\ handler' = [handler EXCEPT ![r].frames = @ + 1]
    /\ UNCHANGED <<billingVars, lockVars, now, ticks, pc, currentLock, verdict,
                   resets, hist, lastCall, config, heartbeat>>

\* The sequence is exhausted, or the Anthropic route reads [DONE] and breaks.
PullEnd(r) ==
    /\ handler[r].pc = "pulling"
    /\ StreamSuccess(r)

\* The pull throws, or JSON.parse / the translation of the frame throws.
PullThrows(r) ==
    /\ handler[r].pc = "pulling"
    /\ StreamCatch(r)

\* await stream.writeSSE(...) completes.
WriteDone(r) ==
    /\ handler[r].pc = "writing"
    /\ SetH(r, "pc", "pulling")
    /\ UNCHANGED <<billingVars, lockVars, now, ticks, pc, currentLock, verdict,
                   resets, hist, lastCall, config, heartbeat>>

\* await stream.writeSSE(...) throws.
WriteThrows(r) ==
    /\ handler[r].pc = "writing"
    /\ StreamCatch(r)

\* The transport aborts the stream (the client went away); the callback is not
\* told and keeps running.
TransportAbort(r) ==
    /\ handler[r].pc \in {"pulling", "writing"}
    /\ ~handler[r].aborted
    /\ SetH(r, "aborted", TRUE)
    /\ UNCHANGED <<billingVars, lockVars, now, ticks, pc, currentLock, verdict,
                   resets, hist, lastCall, config, heartbeat>>

\* The streaming callback of r has ended: its finally has called stop().
Ended(r) == handler[r].pc \in {"returned", "rethrown"}

\* The interval timer fires: heartbeatCount++, then `await stream.write(...)`.
HeartbeatFire(r) ==
    /\ heartbeat[r].timer
    /\ heartbeat[r].heartbeatCount < MaxBeats
    /\ heartbeat' = [heartbeat EXCEPT
                        ![r].heartbeatCount = @ + 1,
                        ![r].writing = @ + 1,
                        ![r].firedAfterStop = @ \/ Ended(r),
                        ![r].firedPastCap = MaxDurationExceeded(heartbeat[r])]
    /\ UNCHANGED <<billingVars, lockVars, now, ticks, pc, currentLock, verdict,
                   resets, hist, lastCall, config, handler>>

\* The rest of a tick after its write completed, lines 109-123: past the cap,
\* stop() and onMaxDuration(), which only logs a warning.
TickAfterWrite(b) ==
    IF MaxDurationExceeded(b)
    THEN [HeartbeatStop(b) EXCEPT !.writing = @ - 1, !.maxDurationCalls = @ + 1]
    ELSE [b EXCEPT !.writing = @ - 1]

\* The catch of a tick, lines 124-129: the failure is logged, nothing else.
TickCatchStopsTimer(b) ==
    [b EXCEPT !.writing = @ - 1, !.failedAt = b.heartbeatCount, !.timer = FALSE]
TickCatch(b) == [b EXCEPT !.writing = @ - 1, !.failedAt = b.heartbeatCount]

\* A tick's write completes.
HeartbeatWritten(r) ==
    /\ heartbeat[r].writing > 0
    /\ heartbeat' = [heartbeat EXCEPT ![r] =
          [TickAfterWrite(@) EXCEPT
              !.calledAfterStop =
                  @ \/ (Ended(r) /\ MaxDurationExceeded(heartbeat[r]))]]
    /\ UNCHANGED <<billingVars, lockVars, now, ticks, pc, currentLock, verdict,
                   resets, hist, lastCall, config, handler>>

\* A tick's write throws: caught and logged inside the tick.
HeartbeatWriteFails(r) ==
    /\ heartbeat[r].writing > 0
    /\ heartbeat' = [heartbeat EXCEPT ![r] =
          [TickCatch(@) EXCEPT
              !.failedPastCap =
                  @ \/ (heartbeat[r].writing = 1 /\ heartbeat[r].firedPastCap)]]
    /\ UNCHANGED <<billingVars, lockVars, now, ticks, pc, currentLock, verdict,
                   resets, hist, lastCall, config, handler>>

HandlerNext ==
    \/ \E r \in Streams, k \in Kinds, ok \in BOOLEAN : RateLimit(r, k, ok)
    \/ \E r \in Streams, ok \in BOOLEAN : ParseBody(r, ok)
    \/ \E r \in Streams, ok \in BOOLEAN : Approval(r, ok)
    \/ \E r \in Streams : Dispatch(r)
    \/ \E r \in Streams : Acquire(r) /\ UNCHANGED hvars
    \/ \E r \in Streams : Critical(r) /\ UNCHANGED hvars
    \/ \E r \in Streams : BackendFails(r)
    \/ \E r \in Streams, shape \in {"complete", "stream"} : BackendReplies(r, shape)
    \/ \E r \in Streams : ReplyJson(r)
    \/ \E r \in Streams : StreamOpen(r)
    \/ \E r \in Streams : PullData(r)
    \/ \E r \in Streams : PullEmpty(r)
    \/ \E r \in Streams : PullEnd(r)
    \/ \E r \in Streams : PullThrows(r)
    \/ \E r \in Streams : WriteDone(r)
    \/ \E r \in Streams : WriteThrows(r)
    \/ \E r \in Streams : TransportAbort(r)
    \/ \E r \in Streams : HeartbeatFire(r)
    \/ \E r \in Streams : HeartbeatWritten(r)
    \/ \E r \in Streams : HeartbeatWriteFails(r)
    \/ \E d \in Deltas : Tick(d) /\ UNCHANGED hvars

HandlerSpec == HandlerInit /\ [][HandlerNext]_vars

\* ------------------------------------------- Anthropic stream translation

\* A backend chunk: an optional text fragment, an optional tool-call fragment
\* (its index, or NoTool) and whether it carries a finish reason.
NoTool == -1
ToolIndexes == 0 .. (MaxToolCalls - 1)
Chunks == [text : BOOLEAN, tool : ToolIndexes \cup {NoTool}, finish : BOOLEAN]

Event(type, index, kind) == [type |-> type, index |-> index, kind |-> kind]

\* The open block is a tool-use block.
IsToolBlockOpen(st) ==
    /\ st.contentBlockOpen
    /\ \E i \in DOMAIN st.toolCalls : st.toolCalls[i] = st.contentBlockIndex

\* The steps of the translation of one chunk; x is the state so far and the
\* events emitted so far.
EmitMessageStart(x) ==
    IF x.st.messageStartSent THEN x
    ELSE [st |-> [x.st EXCEPT !.messageStartSent = TRUE],
          ev |-> Append(x.ev, Event("message_start", -1, "none"))]

CloseBlock(x) ==
    IF ~x.st.contentBlockOpen THEN x
    ELSE [st |-> [x.st EXCEPT !.contentBlockOpen = FALSE,
                              !.contentBlockIndex = @ + 1],
          ev |-> Append(x.ev, Event("content_block_stop",
                                    x.st.contentBlockIndex, "none"))]

TextFragment(f, x) ==
    IF ~f.text THEN x
    ELSE LET y == IF IsToolBlockOpen(x.st) THEN CloseBlock(x) ELSE x
             z == IF y.st.contentBlockOpen THEN y
                  ELSE [st |-> [y.st EXCEPT !.contentBlockOpen = TRUE],
                        ev |-> Append(y.ev, Event("content_block_start",
                                                  y.st.contentBlockIndex, "text"))]
         IN [st |-> z.st,
             ev |-> Append(z.ev, Event("content_block_delta",
                                       z.st.contentBlockIndex, "text"))]

ToolFragment(f, x) ==
    IF f.tool = NoTool THEN x
    ELSE IF f.tool \notin DOMAIN x.st.toolCalls
    THEN LET y == CloseBlock(x)
         IN [st |-> [y.st EXCEPT
                        !.contentBlockOpen = TRUE,
                        !.toolCalls = @ @@ (f.tool :> y.st.contentBlockIndex)],
             ev |-> Append(y.ev, Event("content_block_start",
                                       y.st.contentBlockIndex, "tool_use"))]
    ELSE [st |-> x.st,
          ev |-> Append(x.ev, Event("content_block_delta",
                                    x.st.toolCalls[f.tool], "tool_use"))]

FinishReason(f, x) ==
    IF ~f.finish THEN x
    ELSE LET y == CloseBlock(x)
         IN [st |-> y.st,
             ev |-> y.ev \o <<Event("message_delta", -1, "none"),
                              Event("message_stop", -1, "none")>>]

\* translateChunkToAnthropicEvents(chunk, streamState): the events of one
\* chunk and the state it leaves.
TranslateChunkToAnthropicEvents(f, st) ==
    FinishReason(f, ToolFragment(f, TextFragment(f,
        EmitMessageStart([st |-> st, ev |-> <<>>]))))

\* if (rawEvent.data === "[DONE]") break: the loop ends and writes nothing.
OnDoneEmitsStop(h) ==
    [h EXCEPT !.sentinel = TRUE, !.lenAtSentinel = Len(h.out),
              !.out = Append(@, Event("message_stop", -1, "none"))]
OnDone(h) == [h EXCEPT !.sentinel = TRUE, !.lenAtSentinel = Len(h.out)]

\* for await: a chunk arrives, is parsed and translated. The backend sends no
\* chunk after the one carrying the finish reason.
PullChunk(r, f) ==
    /\ handler[r].pc = "pulling"
    /\ handler[r].frames < MaxChunks
    /\ ~handler[r].finished
    /\ LET t == TranslateChunkToAnthropicEvents(f, handler[r].streamState)
       IN handler' = [handler EXCEPT
                         ![r].frames = @ + 1,
                         ![r].finished = f.finish,
                         ![r].streamState = t.st,
                         ![r].toWrite = t.ev,
                         ![r].pc = IF t.ev = <<>> THEN "pulling" ELSE "writing"]
    /\ UNCHANGED <<billingVars, lockVars, now, ticks, pc, currentLock, verdict,
                   resets, hist, lastCall, config, heartbeat>>

\* for (const event of events) await stream.writeSSE(...): one event written.
WriteEvent(r) ==
    /\ handler[r].pc = "writing"
    /\ handler' = [handler EXCEPT
                      ![r].out = Append(@, Head(handler[r].toWrite)),
                      ![r].toWrite = Tail(@),
                      ![r].pc = IF Len(handler[r].toWrite) = 1 THEN "pulling"
                                ELSE "writing"]
    /\ UNCHANGED <<billingVars, lockVars, now, ticks, pc, currentLock, verdict,
                   resets, hist, lastCall, config, heartbeat>>

\* The loop reads [DONE] and breaks: markResponseComplete, finally stop().
ReadDone(r) ==
    /\ handler[r].pc = "pulling"
    /\ MarkResponseComplete(r)
    /\ handler' = [handler EXCEPT ![r] = [OnDone(@) EXCEPT
                                            !.pc = "returned",
                                            !.completeCalls = @ + 1]]
    /\ heartbeat' = [heartbeat EXCEPT ![r] = HeartbeatStop(@)]
    /\ UNCHANGED config

\* One request on the Anthropic route whose reply is a stream, from the route
\* to the end of the streaming callback.
TranslatorNext ==
    \/ \E r \in Streams : RateLimit(r, "anthropic", TRUE)
    \/ \E r \in Streams : ParseBody(r, TRUE)
    \/ \E r \in Streams : Approval(r, TRUE)
    \/ \E r \in Streams : Dispatch(r)
    \/ \E r \in Streams : Acquire(r) /\ UNCHANGED hvars
    \/ \E r \in Streams : Critical(r) /\ UNCHANGED hvars
    \/ \E r \in Streams : BackendReplies(r, "stream")
    \/ \E r \in Streams : StreamOpen(r)
    \/ \E r \in Streams, f \in Chunks : PullChunk(r, f)
    \/ \E r \in Streams : PullEmpty(r)
    \/ \E r \in Streams : ReadDone(r)
    \/ \E r \in Streams : PullEnd(r)
    \/ \E r \in Streams : PullThrows(r)
    \/ \E r \in Streams : WriteEvent(r)
    \/ \E r \in Streams : WriteThrows(r)

TranslatorSpec == Init /\ [][TranslatorNext]_vars

\* ------------------------------------------------------------- properties

\* C1: when the calls that have returned since the last markResponseComplete /
\* markRequestFailed / reset all ran on a cycle that was idle at that point
\* (inCycle = FALSE, pendingResponses = 0), exactly one of them returned
\* "user" and all the others returned "agent".
C1_ExactlyOneUser ==
    (hist.idleAtMark /\ hist.callsSinceMark >= 1)
        => /\ hist.usersSinceMark = 1
           /\ hist.agentsSinceMark = hist.callsSinceMark - 1
C1_Witness ==
    /\ hist.idleAtMark
    /\ hist.callsSinceMark = NumReq
    /\ hist.agentsSinceMark = NumReq - 1

\* C2: at most one caller is between the return of acquireLock and its call of
\* releaseLock, and the release installed in this.releaseLock is that caller's.
C2_MutualExclusion ==
    /\ Cardinality({r \in Requests : pc[r] = "locked"}) <= 1
    /\ \A r \in Requests : pc[r] = "locked" =>
          /\ releaseLock = r
          /\ r \notin resolved
          /\ \A s \in Requests : pc[s] = "awaitLock" => currentLock[s] \notin resolved
C2_Witness ==
    \E r, s \in Requests :
        /\ pc[r] = "locked" /\ pc[s] = "awaitLock" /\ currentLock[s] = r
        /\ \E q \in Requests : pc[q] = "inflight"

\* C3 (as stated): a determineInitiator call that finds pendingResponses = 0, with
\* no determineInitiator since the most recent markResponseComplete and at
\* least CYCLE_TIMEOUT_MS elapsed since it, returns "user".
C3_AtLeastTimeout ==
    (lastCall.quiet /\ lastCall.pendingBefore = 0 /\ lastCall.age >= CYCLE_TIMEOUT_MS)
        => lastCall.verdict = "user"
\* C3 (amended): the same with strictly more than CYCLE_TIMEOUT_MS elapsed.
C3_MoreThanTimeout ==
    (lastCall.quiet /\ lastCall.pendingBefore = 0 /\ lastCall.age > CYCLE_TIMEOUT_MS)
        => lastCall.verdict = "user"
C3_Witness ==
    /\ lastCall.quiet /\ lastCall.pendingBefore = 0
    /\ lastCall.age > CYCLE_TIMEOUT_MS
    /\ lastCall.verdict = "user"
    /\ hist.stale = {} /\ resets = 0

\* C4: once the open cycle has seen a markResponseComplete, every
\* determineInitiator call made less than CYCLE_TIMEOUT_MS after the most recent
\* markResponseComplete returns "agent".
C4_AgentWithinTimeout ==
    (lastCall.completedInCycle /\ lastCall.age >= 0 /\ lastCall.age < CYCLE_TIMEOUT_MS)
        => lastCall.verdict = "agent"
C4_Witness ==
    /\ lastCall.completedInCycle /\ lastCall.age >= 0
    /\ lastCall.age < CYCLE_TIMEOUT_MS
    /\ Cardinality({r \in Requests : verdict[r] = "agent"}) >= 2

\* C5 (as stated): after the request that opened the cycle called
\* markRequestFailed before any markResponseComplete of that cycle, the next
\* determineInitiator call returns "user".
C5_FirstFailedThenUser ==
    lastCall.firstFailed => lastCall.verdict = "user"
\* C5 (amended): the same when no other request was in flight at the failure and
\* reset was never called with requests in flight.
C5_FirstFailedAloneThenUser ==
    (lastCall.firstFailedAlone /\ ~lastCall.stale) => lastCall.verdict = "user"
\* the case of a cycle opened after an earlier one expired
C5_Witness ==
    /\ lastCall.firstFailedAlone /\ ~lastCall.stale
    /\ lastCall.verdict = "user"
    /\ lastResponseTime # 0

\* C6 (as stated): after a request that did not open the cycle called
\* markRequestFailed in a cycle that has seen a markResponseComplete, the cycle
\* is open and the next determineInitiator call returns "agent".
C6_LaterFailedThenAgent ==
    /\ hist.laterFailed => inCycle
    /\ lastCall.laterFailed => lastCall.verdict = "agent"
\* C6 (amended): the cycle is open, and the next call returns "agent" when
\* another request is pending or no more than CYCLE_TIMEOUT_MS elapsed since the
\* most recent markResponseComplete.
C6_LaterFailedThenAgentInTime ==
    /\ hist.laterFailed => inCycle
    /\ (lastCall.laterFailed
          /\ (lastCall.pendingBefore > 0 \/ lastCall.age <= CYCLE_TIMEOUT_MS))
        => lastCall.verdict = "agent"
C6_Witness ==
    /\ lastCall.laterFailed /\ lastCall.pendingBefore = 0
    /\ lastCall.age = CYCLE_TIMEOUT_MS
    /\ lastCall.verdict = "agent"

\* C7: pendingResponses > 0 implies inCycle, and a determineInitiator call that
\* finds pendingResponses > 0 returns "agent", whatever the time elapsed.
C7_PendingKeepsCycle ==
    /\ pendingResponses > 0 => inCycle
    /\ lastCall.pendingBefore > 0 => lastCall.verdict = "agent"
C7_Witness ==
    /\ lastCall.pendingBefore > 0
    /\ lastCall.age > CYCLE_TIMEOUT_MS
    /\ lastCall.verdict = "agent"

\* C8 (as stated): every request whose reply was fully delivered, non-streaming
\* or streaming, has had markResponseComplete called exactly once, and is no
\* longer counted in pendingResponses.
C8_CompleteOncePerDeliveredReply ==
    \A r \in Streams :
        handler[r].pc \in {"replied", "returned"} =>
            /\ handler[r].completeCalls = 1
            /\ pc[r] = "done"
            /\ pendingResponses = 0

\* C9: a streaming callback that has ended made exactly one call: it returned
\* after markResponseComplete alone when no error was raised, and it re-raised
\* after markRequestFailed alone when one was; the billing cycle has counted the
\* request out; while the loop runs neither call has been made.
C9_ExactlyOneMark ==
    \A r \in Streams :
        /\ handler[r].pc = "returned" =>
              /\ handler[r].completeCalls = 1 /\ handler[r].failedCalls = 0
              /\ ~handler[r].errored /\ pc[r] = "done"
        /\ handler[r].pc = "rethrown" =>
              /\ handler[r].completeCalls = 0 /\ handler[r].failedCalls = 1
              /\ handler[r].errored /\ pc[r] = "done"
        /\ handler[r].pc \in {"streamOpen", "pulling", "writing"} =>
              /\ handler[r].completeCalls = 0 /\ handler[r].failedCalls = 0
              /\ pc[r] = "inflight"
C9_Witness ==
    \E r \in Streams :
        /\ handler[r].pc = "rethrown" /\ handler[r].frames = MaxFrames
        /\ handler[r].failedCalls = 1 /\ pendingResponses = 0

\* C10 (as stated): a stream whose heartbeat session exceeded its maximum
\* duration, or that the transport aborted, ends re-raising with
\* markRequestFailed called.
C10_CancelledStreamMarkedFailed ==
    \A r \in Streams :
        ((heartbeat[r].maxDurationCalls > 0 \/ handler[r].aborted)
            /\ handler[r].pc \in {"returned", "rethrown"})
        => (handler[r].pc = "rethrown" /\ handler[r].failedCalls = 1)

\* C11 (as stated): a heartbeat session invokes onMaxDuration at most once,
\* whatever the interleaving of its ticks with their pending writes.
C11_MaxDurationAtMostOnce ==
    \A r \in Streams : heartbeat[r].maxDurationCalls <= 1

\* C12: once the streaming callback has returned or re-raised, the timer of its
\* heartbeat session is not armed, and it stays so: the stop() of a tick that
\* detects the overflow afterwards changes nothing.
C12_StoppedAtEnd ==
    \A r \in Streams :
        handler[r].pc \in {"returned", "rethrown"} => ~heartbeat[r].timer
C12_Witness ==
    \E r \in Streams :
        /\ handler[r].pc \in {"returned", "rethrown"}
        /\ heartbeat[r].started /\ ~heartbeat[r].timer
        /\ heartbeat[r].maxDurationCalls = 1
        /\ heartbeat[r].heartbeatCount = 1

\* C13: a step in which a tick's write fails leaves the timer as it was and
\* changes nothing of the stream handler or of the billing cycle; while the
\* timer is armed every tick fired is one more write attempt.
C13_WriteFailureContained ==
    [][\A r \in Streams :
         heartbeat'[r].failedAt # heartbeat[r].failedAt =>
            /\ heartbeat'[r].timer = heartbeat[r].timer
            /\ heartbeat'[r].maxDurationCalls = heartbeat[r].maxDurationCalls
            /\ handler' = handler
            /\ UNCHANGED <<billingVars, pc>>]_vars
C13_Witness ==
    \E r \in Streams :
        /\ heartbeat[r].failedAt = 1 /\ heartbeat[r].timer
        /\ heartbeat[r].heartbeatCount = 2 /\ heartbeat[r].writing = 1
        /\ handler[r].pc \in {"pulling", "writing"}

\* C14 (as stated): with SSE_MAX_CONNECTION_DURATION set to 0 in the process
\* configuration the cap is disabled: onMaxDuration is never invoked.
C14_ZeroDisablesCap ==
    config.envMaxDuration = "0" =>
        \A r \in Streams : heartbeat[r].maxDurationCalls = 0

\* C15: a request rejected before dispatch (rate limit, request body,
\* approval) has left inCycle, lastResponseTime and pendingResponses as they
\* were, has not called determineInitiator and has armed no heartbeat session.
C15_RejectedLeavesNoTrace ==
    \A r \in Streams :
        handler[r].pc = "rejected" =>
            /\ inCycle = FALSE /\ lastResponseTime = 0 /\ pendingResponses = 0
            /\ pc[r] = "idle" /\ hist = InitHist
            /\ heartbeat[r] = NewHeartbeat
C15_Witness ==
    \E r \in Streams :
        /\ handler[r].pc = "rejected" /\ handler[r].rejectedAt = "approval"
        /\ handler[r].kind = "anthropic"
        /\ now > CYCLE_TIMEOUT_MS + 1

\* C18 (as stated): whenever markRequestFailed has just brought
\* pendingResponses to 0 in a cycle none of whose requests completed, the
\* cycle is closed (no reset was made while requests were in flight).
C18_FailedToZeroClosesCycle ==
    (hist.failedToZero /\ hist.stale = {}) => ~inCycle

\* C19: as long as reset was not called while requests were in flight,
\* pendingResponses is the number of determineInitiator calls that returned
\* minus the number of markResponseComplete and markRequestFailed calls, and a
\* request about to make its call finds pendingResponses at least 1, so the
\* floor at 0 is not applied.
C19_PendingIsReturnedMinusMarked ==
    hist.stale = {} =>
        /\ pendingResponses = Cardinality(Returned) - Cardinality(Marked)
        /\ InFlight # {} => pendingResponses >= 1
C19_Witness ==
    /\ hist.stale = {} /\ resets = 1
    /\ pendingResponses = 2 /\ Cardinality(Marked) = 1
    /\ Cardinality(Returned) = 3

\* C20: under the event loop's fairness, every caller of determineInitiator
\* that is waiting for the lock eventually holds it and returns a verdict.
C20_EveryCallerReturns ==
    \A r \in Requests :
        (pc[r] = "awaitLock") ~> (pc[r] = "inflight" /\ verdict[r] # "none")
C20_Witness ==
    /\ \A r \in Requests : pc[r] = "inflight" /\ verdict[r] # "none"
    /\ \A r \in Requests : r > 1 => currentLock[r] = r - 1
    /\ pendingResponses = NumReq

\* The events the translator produced for a stream, written or not, and the
\* counts of one type among the first n of a sequence.
Emitted(r) == handler[r].out \o handler[r].toWrite
CountBefore(s, n, type) == Cardinality({j \in 1..(n - 1) : s[j].type = type})
CountOf(s, type) == CountBefore(s, Len(s) + 1, type)

\* C16: in the events produced for a stream, a content_block_start comes only
\* when every earlier block was stopped, a content_block_stop comes only when
\* one block is open and names it, and the k-th block started has index k - 1;
\* the state agrees: its block is open exactly when a start is unmatched.
C16_OneOpenBlock ==
    \A r \in Streams :
        LET s == Emitted(r)
            Starts(n) == CountBefore(s, n, "content_block_start")
            Stops(n) == CountBefore(s, n, "content_block_stop")
        IN /\ \A i \in 1..Len(s) :
                /\ s[i].type = "content_block_start" =>
                      Starts(i) = Stops(i) /\ s[i].index = Starts(i)
                /\ s[i].type = "content_block_stop" =>
                      Starts(i) = Stops(i) + 1 /\ s[i].index = Starts(i) - 1
           /\ handler[r].streamState.contentBlockOpen <=>
                 CountOf(s, "content_block_start")
                    = CountOf(s, "content_block_stop") + 1
C16_Witness ==
    \E r \in Streams :
        LET s == handler[r].out
        IN /\ Len(s) >= 8
           /\ s[2] = Event("content_block_start", 0, "text")
           /\ s[4] = Event("content_block_stop", 0, "none")
           /\ s[5] = Event("content_block_start", 1, "tool_use")
           /\ s[6] = Event("content_block_stop", 1, "none")
           /\ s[7] = Event("content_block_start", 2, "text")

C21_QuietAfterStop ==
    \A r \in Streams :
        ~heartbeat[r].firedAfterStop /\ ~heartbeat[r].calledAfterStop

\* C22 (as stated): in a session nobody stopped from outside, once a tick that
\* fired past the cap has run to its end, the timer is stopped and
\* onMaxDuration was invoked, even if that tick's write failed.
C22_PastCapTickStops ==
    \A r \in Streams :
        (heartbeat[r].failedPastCap /\ ~Ended(r)) =>
            ~heartbeat[r].timer /\ heartbeat[r].maxDurationCalls >= 1

====
